---- MODULE Spec2Model ----
(***************************************************************************)
(* Model of improved_ocr_converter.py: the OCR text cleanup pipeline        *)
(* (remove_headers_footers, clean_ocr_artifacts, normalize_text_formatting, *)
(* detect_and_format_structure), the Markdown assembler and the            *)
(* conversion driver convert_pdf_to_markdown.                              *)
(*                                                                         *)
(* A text is a sequence of characters; a character is a one-element string *)
(* atom.  The non-ASCII characters of the source are named atoms:          *)
(* "COPY" (c-in-circle), "NDASH", "MDASH", "ELLIPSIS", "BULLET", "MIDDOT". *)
(***************************************************************************)
EXTENDS Integers, Sequences, FiniteSets, TLC

VARIABLES
    \* ---- text machine: a text and the cleanup functions applied to it
    cur,            \* the current text
    prev,           \* the text the last function was applied to
    ops,            \* names of the functions applied so far, in order
    \* ---- conversion driver
    pc,             \* position of the caller / of convert_pdf_to_markdown
    exists,         \* whether pdf_path exists on disk
    doc,            \* the PDF's pages: what OCR and native extraction yield
    pdf_name,       \* file name of the PDF (pdf_path.name)
    output_filename,\* the output_filename argument (None or a text)
    pages,          \* the pages argument (None or a list of integers)
    total_pages,    \* local total_pages of convert_pdf_to_markdown
    idx,            \* number of entries of pages the loop has consumed
    extracted_data, \* local list of page records
    open_handles,   \* number of fitz documents opened and not closed
    images,         \* image files written under image_dir
    written,        \* output files written under output_dir: [name, content]
    result,         \* the dictionary returned to the caller, or None
    raised,         \* the exception that propagated to the caller, or None
    call,           \* the method the caller invoked: "convert" or "extract"
    faults          \* the steps at which a collaborator raised, in order

text_vars == <<cur, prev, ops>>
conv_vars == <<pc, exists, doc, pdf_name, output_filename, pages, total_pages,
               idx, extracted_data, open_handles, images, written, result,
               raised, call, faults>>
vars == <<cur, prev, ops, pc, exists, doc, pdf_name, output_filename, pages,
          total_pages, idx, extracted_data, open_handles, images, written,
          result, raised, call, faults>>

\* Optional values: None, or Some(x)
None == <<>>
Some(x) == <<x>>

(***************************************************************************)
(* Characters and the str predicates the code uses.                        *)
(***************************************************************************)
Lower26 == <<"a","b","c","d","e","f","g","h","i","j","k","l","m",
             "n","o","p","q","r","s","t","u","v","w","x","y","z">>
Upper26 == <<"A","B","C","D","E","F","G","H","I","J","K","L","M",
             "N","O","P","Q","R","S","T","U","V","W","X","Y","Z">>
LowerSet == {Lower26[i] : i \in 1..26}
UpperSet == {Upper26[i] : i \in 1..26}
Digits == {"0","1","2","3","4","5","6","7","8","9"}
Whitespace == {" ", "\t", "\n", "\r"}

IsAlpha(c) == c \in LowerSet \cup UpperSet
IsDigit(c) == c \in Digits
IsSpace(c) == c \in Whitespace
\* \w of the re module
IsWord(c) == IsAlpha(c) \/ IsDigit(c) \/ c = "_"

ToLower(c) == IF c \in UpperSet
              THEN Lower26[CHOOSE i \in 1..26 : Upper26[i] = c] ELSE c
ToUpper(c) == IF c \in LowerSet
              THEN Upper26[CHOOSE i \in 1..26 : Lower26[i] = c] ELSE c

SetMin(S) == CHOOSE x \in S : \A y \in S : x <= y
SetMax(S) == CHOOSE x \in S : \A y \in S : x >= y

\* str.lower()
Lower(s) == [i \in 1..Len(s) |-> ToLower(s[i])]

\* str.strip()
Strip(s) ==
    LET keep == {i \in 1..Len(s) : ~IsSpace(s[i])}
    IN  IF keep = {} THEN <<>> ELSE SubSeq(s, SetMin(keep), SetMax(keep))

\* str.isdigit()
IsDigitStr(s) == Len(s) > 0 /\ \A i \in 1..Len(s) : IsDigit(s[i])

\* str.isupper(): at least one cased character and no lowercase one
IsUpperStr(s) == /\ \E i \in 1..Len(s) : s[i] \in UpperSet
                 /\ \A i \in 1..Len(s) : s[i] \notin LowerSet

\* str.split(c) for a one-character separator
RECURSIVE Split(_, _)
Split(s, c) ==
    LET at == {i \in 1..Len(s) : s[i] = c}
    IN  IF at = {} THEN <<s>>
        ELSE LET k == SetMin(at)
             IN  <<SubSeq(s, 1, k - 1)>> \o Split(SubSeq(s, k + 1, Len(s)), c)

\* sep.join(parts)
RECURSIVE Join(_, _)
Join(parts, sep) ==
    IF Len(parts) = 0 THEN <<>>
    ELSE IF Len(parts) = 1 THEN parts[1]
    ELSE parts[1] \o sep \o Join(Tail(parts), sep)

\* the subsequence of s at the positions in K, in order
Pick(s, K) ==
    LET rank == [k \in K |-> Cardinality({m \in K : m <= k})]
    IN  [j \in 1..Cardinality(K) |-> s[CHOOSE k \in K : rank[k] = j]]

\* [line.strip() for line in lines]
StripAll(lines) == [i \in 1..Len(lines) |-> Strip(lines[i])]

\* whether text s holds the literal lit at position k
HasAt(s, k, lit) ==
    /\ k >= 1
    /\ k + Len(lit) - 1 <= Len(s)
    /\ \A j \in 1..Len(lit) : s[k + j - 1] = lit[j]

\* str.replace(old, new) for a non-empty old: leftmost, non-overlapping
RECURSIVE Replace(_, _, _)
Replace(s, old, new) ==
    LET at == {k \in 1..Len(s) : HasAt(s, k, old)}
    IN  IF at = {} THEN s
        ELSE LET k == SetMin(at)
             IN  SubSeq(s, 1, k - 1) \o new
                   \o Replace(SubSeq(s, k + Len(old), Len(s)), old, new)

(***************************************************************************)
(* self.headers_footers and re.search over it.  A pattern is a sequence of *)
(* items: a literal character, "<d>" for \d, "<d+>" for \d+, "<w+>" for    *)
(* \w+.                                                                    *)
(***************************************************************************)
headers_footers == <<
    <<"l","e","a","r","n","e","r"," ","g","u","i","d","e"," ",
      "v","e","r","s","i","o","n"," ","<d+>",".","<d+>">>,
    <<"p","r","o","d","u","c","e","d"," ","<d+>"," ","<w+>"," ",
      "<d>","<d>","<d>","<d>">>,
    <<"COPY"," ","c","o","m","p","l","i","a","n","t"," ",
      "l","e","a","r","n","i","n","g"," ","r","e","s","o","u","r","c","e","s">>,
    <<"p","a","g","e"," ","<d+>">>,
    <<"c","o","m","p","l","i","a","n","t"," ",
      "l","e","a","r","n","i","n","g"," ","r","e","s","o","u","r","c","e","s">>,
    <<"b","s","b","f","i","n","<d+>">>,
    <<"m","a","n","a","g","e"," ","o","r","g","a","n","i","s","a","t","i","o","n","a","l"," ",
      "f","i","n","a","n","c","e","s">>,
    <<"r","e","l","e","a","s","e"," ","<d+>">>,
    <<"u","n","i","t"," ","o","f"," ","c","o","m","p","e","t","e","n","c","y">>,
    <<"c","o","m","p","e","t","e","n","c","y"," ","s","t","a","n","d","a","r","d","s">>,
    <<"COPY"," ","<d>","<d>","<d>","<d>">>,
    <<"v","e","r","s","i","o","n"," ","<d+>",".","<d+>">>,
    <<"p","a","g","e"," ","<d+>"," ","o","f"," ","<d+>">>,
    <<"c","o","n","f","i","d","e","n","t","i","a","l">>,
    <<"s","a","m","p","l","e">>,
    <<"w","a","t","e","r","m","a","r","k">>,
    <<"p","r","e","v","i","e","w">> >>

\* whether pat[i..] matches s from position k on
RECURSIVE MatchFrom(_, _, _, _)
MatchFrom(pat, s, i, k) ==
    IF i > Len(pat) THEN TRUE
    ELSE IF k > Len(s) THEN FALSE
    ELSE CASE pat[i] = "<d>"  -> IsDigit(s[k]) /\ MatchFrom(pat, s, i + 1, k + 1)
           [] pat[i] = "<d+>" -> IsDigit(s[k]) /\ (\/ MatchFrom(pat, s, i, k + 1)
                                                   \/ MatchFrom(pat, s, i + 1, k + 1))
           [] pat[i] = "<w+>" -> IsWord(s[k]) /\ (\/ MatchFrom(pat, s, i, k + 1)
                                                  \/ MatchFrom(pat, s, i + 1, k + 1))
           [] OTHER           -> s[k] = pat[i] /\ MatchFrom(pat, s, i + 1, k + 1)

\* re.search(pattern, s) is not None
Search(pat, s) == \E k \in 1..Len(s) : MatchFrom(pat, s, 1, k)

(***************************************************************************)
(* Stage 1: remove_headers_footers                                         *)
(***************************************************************************)
\* KeepLine without the test for an alphabetic character
KeepLine_NoAlphaCheck(line) ==
    LET line_lower == Strip(Lower(line))
        skip_line == \E p \in 1..Len(headers_footers) :
                        Search(headers_footers[p], line_lower)
        stripped == Strip(line)
    IN  /\ ~(Len(stripped) < 3)
        /\ ~IsDigitStr(stripped)
        /\ ~skip_line

KeepLine(line) ==
    LET line_lower == Strip(Lower(line))
        skip_line == \E p \in 1..Len(headers_footers) :
                        Search(headers_footers[p], line_lower)
        stripped == Strip(line)
    IN  /\ ~(Len(stripped) < 3)
        /\ ~(IsDigitStr(stripped) \/ ~\E i \in 1..Len(stripped) : IsAlpha(stripped[i]))
        /\ ~skip_line

remove_headers_footers(text) ==
    LET lines == Split(text, "\n")
        cleaned_lines == SelectSeq(lines, KeepLine)
    IN  Join(cleaned_lines, <<"\n">>)

(***************************************************************************)
(* Stage 2: clean_ocr_artifacts                                            *)
(***************************************************************************)
\* CollapseWhitespace for blanks and tabs only, as r'[ \t]+' would do
CollapseWhitespace_KeepsLineBreaks(text) ==
    LET Blank(c) == c \in {" ", "\t"}
        Keep(i) == ~Blank(text[i]) \/ i = 1 \/ ~Blank(text[i - 1])
        kept == Pick(text, {i \in 1..Len(text) : Keep(i)})
    IN  [i \in 1..Len(kept) |-> IF Blank(kept[i]) THEN " " ELSE kept[i]]

\* re.sub(r'\s+', ' ', text)
CollapseWhitespace(text) ==
    LET Keep(i) == ~IsSpace(text[i]) \/ i = 1 \/ ~IsSpace(text[i - 1])
        kept == Pick(text, {i \in 1..Len(text) : Keep(i)})
    IN  [i \in 1..Len(kept) |-> IF IsSpace(kept[i]) THEN " " ELSE kept[i]]

\* re.sub(r'[|_]{2,}', '', text)
PipeUnderscore == {"|", "_"}
StripPipeRuns(text) ==
    LET InRun(i) == /\ text[i] \in PipeUnderscore
                    /\ \/ (i > 1 /\ text[i - 1] \in PipeUnderscore)
                       \/ (i < Len(text) /\ text[i + 1] \in PipeUnderscore)
    IN  Pick(text, {i \in 1..Len(text) : ~InRun(i)})

\* The pattern r'[^\w\s.,;:!?()[]{}\'"\-<ndash><mdash><ellipsis><bullet><middot>]'
\* as the re module reads it: the class ends at the first "]", so it is one
\* character outside ClassChars followed by the literal text ClassTail.
ClassChars == {".", ",", ";", ":", "!", "?", "(", ")", "["}
ClassTail == <<"{", "}", "'", "\"", "-", "NDASH", "MDASH", "ELLIPSIS", "BULLET",
               "MIDDOT", "]">>
InClass(c) == IsWord(c) \/ IsSpace(c) \/ c \in ClassChars

RECURSIVE StripInvalid(_)
StripInvalid(text) ==
    LET at == {k \in 1..Len(text) : ~InClass(text[k]) /\ HasAt(text, k + 1, ClassTail)}
    IN  IF at = {} THEN text
        ELSE LET k == SetMin(at)
             IN  SubSeq(text, 1, k - 1)
                   \o StripInvalid(SubSeq(text, k + 1 + Len(ClassTail), Len(text)))

FixChar(c) == IF c = "|" THEN "I" ELSE IF c = "0" THEN "O"
              ELSE IF c = "1" THEN "l" ELSE c

clean_ocr_artifacts(text) ==
    LET t1 == CollapseWhitespace(text)
        t2 == StripPipeRuns(t1)
        t3 == StripInvalid(t2)
    IN  [i \in 1..Len(t3) |-> FixChar(t3[i])]

(***************************************************************************)
(* Stage 3: normalize_text_formatting                                      *)
(***************************************************************************)
SentenceEnd == {".", "!", "?", ":"}

\* line[0].isupper() for a non-empty line
StartsUpper(line) == Len(line) > 0 /\ line[1] \in UpperSet
\* str.endswith(('.', '!', '?', ':'))
EndsSentence(line) == Len(line) > 0 /\ line[Len(line)] \in SentenceEnd

\* the loop over lines from position i on, with the two accumulators
RECURSIVE Paragraphs(_, _, _, _)
Paragraphs(lines, i, normalized_lines, current_paragraph) ==
    IF i > Len(lines)
    THEN IF Len(current_paragraph) > 0
         THEN Append(normalized_lines, Join(current_paragraph, <<" ">>))
         ELSE normalized_lines
    ELSE LET line == lines[i]
             break == /\ StartsUpper(line)
                      /\ Len(current_paragraph) > 0
                      /\ ~EndsSentence(current_paragraph[Len(current_paragraph)])
         IN  IF break
             THEN Paragraphs(lines, i + 1,
                             Append(normalized_lines, Join(current_paragraph, <<" ">>)),
                             <<line>>)
             ELSE Paragraphs(lines, i + 1, normalized_lines,
                             Append(current_paragraph, line))

NonEmpty(line) == Len(line) > 0

normalize_text_formatting(text) ==
    LET lines == SelectSeq(StripAll(Split(text, "\n")), NonEmpty)
    IN  Join(Paragraphs(lines, 1, <<>>, <<>>), <<"\n", "\n">>)

(***************************************************************************)
(* Stage 4: detect_and_format_structure                                    *)
(***************************************************************************)
HeadingMaxLen == 100
Level2MaxLen == 50
Roman == {"I", "V", "X"}

\* re.match(r'^[IVX]+\.', line)
MatchRoman(line) ==
    \E n \in 1..Len(line) - 1 :
        /\ \A i \in 1..n : line[i] \in Roman
        /\ line[n + 1] = "."
\* re.match(r'^\d+\.', line)
MatchNumbered(line) ==
    \E n \in 1..Len(line) - 1 :
        /\ \A i \in 1..n : IsDigit(line[i])
        /\ line[n + 1] = "."
\* re.match(r'^[A-Z][a-z]+', line)
MatchCapitalized(line) ==
    Len(line) >= 2 /\ line[1] \in UpperSet /\ line[2] \in LowerSet

\* IsHeading without the length limit
IsHeading_NoLengthLimit(line) ==
    \/ IsUpperStr(line)
    \/ MatchRoman(line)
    \/ MatchNumbered(line)
    \/ MatchCapitalized(line)

IsHeading(line) ==
    /\ Len(line) < HeadingMaxLen
    /\ \/ IsUpperStr(line)
       \/ MatchRoman(line)
       \/ MatchNumbered(line)
       \/ MatchCapitalized(line)

FormatLine(line) ==
    IF IsHeading(line)
    THEN IF IsUpperStr(line) /\ Len(line) < Level2MaxLen
         THEN <<"#", "#", " ">> \o line
         ELSE <<"#", "#", "#", " ">> \o line
    ELSE line

detect_and_format_structure(text) ==
    LET lines == SelectSeq(StripAll(Split(text, "\n")), NonEmpty)
        formatted_lines == [i \in 1..Len(lines) |-> FormatLine(lines[i])]
    IN  Join(formatted_lines, <<"\n", "\n">>)

(***************************************************************************)
(* clean_and_format_ocr_text: the four stages in order                     *)
(***************************************************************************)
clean_and_format_ocr_text(text) ==
    IF Len(text) = 0 THEN <<>>
    ELSE detect_and_format_structure(
           normalize_text_formatting(
             clean_ocr_artifacts(
               remove_headers_footers(text))))

(***************************************************************************)
(* The text machine: a raw text and the cleanup functions applied to it.   *)
(* A function is applied to the input, or once more to its own output.     *)
(***************************************************************************)
MaxTokens == 3
MaxLineLen == 101

\* concatenation of a sequence of texts
RECURSIVE Concat(_)
Concat(parts) == IF Len(parts) = 0 THEN <<>> ELSE parts[1] \o Concat(Tail(parts))

\* fragments of raw OCR text: blanks, line breaks, pipe/underscore noise,
\* letters, digits, symbols, two footer texts and the literal ClassTail
TextTokens == { <<" ">>, <<"\n">>, <<"|">>, <<"|", "_">>, <<"a">>, <<"B">>,
                <<"1">>, <<"@">>, <<".">>,
                <<"s","a","m","p","l","e">>, <<"P","a","g","e"," ","3">>,
                <<"O","k",".">>,
                ClassTail }
TextInputs ==
    { Concat(ts) : ts \in UNION { [1..n -> TextTokens] : n \in 0..MaxTokens } }

\* one line of n characters of a given shape, optionally padded with blanks
Fill(n, c) == [i \in 1..n |-> c]
LineKinds == {"upper", "capitalized", "roman", "numbered", "plain"}
Line(kind, n) ==
    CASE kind = "upper"       -> Fill(n, "A")
      [] kind = "capitalized" -> IF n < 2 THEN Fill(n, "b")
                                 ELSE <<"A">> \o Fill(n - 1, "b")
      [] kind = "roman"       -> IF n < 3 THEN Fill(n, "b")
                                 ELSE <<"I", "V", ".">> \o Fill(n - 3, "b")
      [] kind = "numbered"    -> IF n < 3 THEN Fill(n, "b")
                                 ELSE <<"1", "2", ".">> \o Fill(n - 3, "b")
      [] OTHER                -> Fill(n, "b")
StructInputs ==
    { pad \o Line(kind, n) \o pad \o tail :
        kind \in LineKinds, n \in 1..MaxLineLen, pad \in {<<>>, <<" ">>},
        tail \in {<<>>, <<"\n", "O", "K">>} }

ConvOff ==
    /\ pc = "off" /\ exists = FALSE /\ doc = <<>> /\ pdf_name = <<>>
    /\ output_filename = None /\ pages = None /\ total_pages = 0 /\ idx = 0
    /\ extracted_data = <<>> /\ open_handles = 0 /\ images = {}
    /\ written = {} /\ result = None /\ raised = None /\ faults = <<>>
    /\ call = "none"

TextInit ==
    /\ cur \in TextInputs /\ prev = <<>> /\ ops = <<>>
    /\ ConvOff

StructInit ==
    /\ cur \in StructInputs /\ prev = <<>> /\ ops = <<>>
    /\ ConvOff

Applying(f) ==
    /\ pc = "off"
    /\ ops \in {<<>>, <<f>>}
    /\ ops' = Append(ops, f)
    /\ prev' = cur
    /\ UNCHANGED conv_vars

RemoveHeadersFooters ==
    /\ Applying("remove_headers_footers")
    /\ cur' = remove_headers_footers(cur)

CleanOcrArtifacts ==
    /\ Applying("clean_ocr_artifacts")
    /\ cur' = clean_ocr_artifacts(cur)

NormalizeTextFormatting ==
    /\ Applying("normalize_text_formatting")
    /\ cur' = normalize_text_formatting(cur)

DetectAndFormatStructure ==
    /\ Applying("detect_and_format_structure")
    /\ cur' = detect_and_format_structure(cur)

CleanAndFormatOcrText ==
    /\ Applying("clean_and_format_ocr_text")
    /\ cur' = clean_and_format_ocr_text(cur)

TextNext ==
    \/ RemoveHeadersFooters
    \/ CleanOcrArtifacts
    \/ NormalizeTextFormatting
    \/ DetectAndFormatStructure
    \/ CleanAndFormatOcrText

TextSpec == TextInit /\ [][TextNext]_vars

StructNext ==
    \/ NormalizeTextFormatting
    \/ DetectAndFormatStructure

StructSpec == StructInit /\ [][StructNext]_vars

(***************************************************************************)
(* Number and name formatting used by the driver and the assembler.        *)
(***************************************************************************)
DigitChars == <<"0","1","2","3","4","5","6","7","8","9">>

\* decimal digits of a natural number
RECURSIVE Dec(_)
Dec(n) == IF n < 10 THEN <<DigitChars[n + 1]>>
          ELSE Dec(n \div 10) \o <<DigitChars[(n % 10) + 1]>>

\* str(n) / f"{n}"
Str(n) == IF n < 0 THEN <<"-">> \o Dec(0 - n) ELSE Dec(n)

\* f"{n:03d}": zero-padded to width 3, the sign counted in the width
Pad03(n) ==
    LET d == IF n < 0 THEN Dec(0 - n) ELSE Dec(n)
        sign == IF n < 0 THEN <<"-">> ELSE <<>>
        fill == 3 - Len(sign) - Len(d)
    IN  sign \o (IF fill > 0 THEN Fill(fill, "0") ELSE <<>>) \o d

\* str.title()
Title(s) ==
    [i \in 1..Len(s) |->
        IF IsAlpha(s[i])
        THEN IF i > 1 /\ IsAlpha(s[i - 1]) THEN ToLower(s[i]) ELSE ToUpper(s[i])
        ELSE s[i]]

\* pathlib's PurePath.stem of a file name
Stem(name) ==
    LET dots == {i \in 1..Len(name) : name[i] = "."}
    IN  IF dots = {} THEN name
        ELSE LET i == SetMax(dots)
             IN  IF 1 < i /\ i < Len(name) THEN SubSeq(name, 1, i - 1) ELSE name

(***************************************************************************)
(* create_clean_markdown                                                   *)
(***************************************************************************)
Placeholder ==
    <<"*","N","o"," ","t","e","x","t"," ","c","o","u","l","d"," ","b","e"," ",
      "e","x","t","r","a","c","t","e","d"," ","f","r","o","m"," ",
      "t","h","i","s"," ","p","a","g","e","*">>
MarkerOpen == <<"*","*","P","a","g","e"," ">>
MarkerClose == <<"*","*">>

PageBlock(page_data) ==
    << MarkerOpen \o Str(page_data.page_num + 1) \o MarkerClose,
       <<>>,
       IF Len(page_data.ocr_text) > 0 THEN page_data.ocr_text ELSE Placeholder,
       <<>>,
       <<"-","-","-">>,
       <<>> >>

create_clean_markdown(data, name) ==
    LET title == Title(Replace(Replace(name, <<".","p","d","f">>, <<>>),
                               <<"_">>, <<" ">>))
        md_content == << <<"#", " ">> \o title, <<>> >>
                        \o Concat([i \in 1..Len(data) |-> PageBlock(data[i])])
    IN  Join(md_content, <<"\n">>)

(***************************************************************************)
(* The PDF on disk and the arguments of a call.                            *)
(***************************************************************************)
MaxPages == 2
MaxReq == 2

\* what a page yields: the OCR engine's raw text and page.get_text()
PageKinds == {
    [ocr |-> <<"P","a","g","e"," ","1","\n","H","e","l","l","o"," ","1","0">>,
     native |-> <<>>],
    [ocr |-> <<>>, native |-> <<>>],
    [ocr |-> <<"1","2","\n","-","-">>, native |-> <<" ","n","\n">>] }
\* a PDF that opens has at least one page
Docs == UNION { [1..n -> PageKinds] : n \in 1..MaxPages }
PdfNames == { <<"m","y","_","d","o","c",".","p","d","f">> }
PageNums == (0 - 1)..MaxPages
PageRequests ==
    {None} \cup { Some(l) : l \in UNION { [1..n -> PageNums] : n \in 0..MaxReq } }
\* no name, the empty name (which also falls back to the stem), a name
OutputNames == { None, Some(<<>>), Some(<<"o","u","t">>) }
ImageDir == <<"i","m","p","r","o","v","e","d","_","i","m","a","g","e","s","/">>
OutputDir == <<"i","m","p","r","o","v","e","d","_","o","u","t","p","u","t","/">>

(***************************************************************************)
(* extract_page_with_improved_ocr(pdf_path, page_num, dpi).                *)
(* fault names the collaborator call that raises ("none": no call does):   *)
(*   "open"   fitz.open                                                    *)
(*   "render" doc[page_num], page.get_pixmap or pix.save                   *)
(*   "native" page.get_text                                                *)
(* ocr_fails: preprocess_image_for_ocr or pytesseract.image_to_string      *)
(* raises.  The outcome tells what was raised (None: the record in data is *)
(* returned), how many handles were opened and closed, the image file      *)
(* written, and which collaborator calls failed.                           *)
(***************************************************************************)
ExtractFaults == {"none", "open", "render", "native"}

Outcome(exc, opened, closed, imgs, data, failed) ==
    [raised |-> exc, opened |-> opened, closed |-> closed, images |-> imgs,
     data |-> data, failed |-> failed]

\* OcrStep with no except clause: the OCR failure leaves the block
OcrStep_Propagates(raw, ocr_fails) ==
    IF ocr_fails
    THEN [raised |-> Some("ocr failed"), cleaned_text |-> <<>>]
    ELSE [raised |-> None, cleaned_text |-> clean_and_format_ocr_text(raw)]

\* the try/except around preprocessing, OCR and cleanup: what leaves the
\* block (nothing is raised out of it) and the value of cleaned_text after it
OcrStep(raw, ocr_fails) ==
    IF ocr_fails
    THEN [raised |-> None, cleaned_text |-> <<>>]
    ELSE [raised |-> None, cleaned_text |-> clean_and_format_ocr_text(raw)]

\* doc[page_num] of PyMuPDF: a negative index counts from the end
\* (page_count is added until it is not negative)
PageIndex(n_pages, page_num) == (page_num % n_pages) + 1

extract_page_with_improved_ocr(d, name, page_num, fault, ocr_fails) ==
    LET image_filename == Stem(name) \o <<"-","p","a","g","e","-">>
                            \o Pad03(page_num) \o <<".","p","n","g">>
        image_path == ImageDir \o image_filename
    IN  IF fault = "open"
        THEN Outcome(Some("open failed"), 0, 0, {}, None, <<"open">>)
        ELSE IF page_num >= Len(d)
        THEN Outcome(Some("ValueError: page does not exist"), 1, 0, {}, None, <<>>)
        ELSE IF fault = "render"
        THEN Outcome(Some("render failed"), 1, 0, {}, None, <<"render">>)
        ELSE LET page == d[PageIndex(Len(d), page_num)]
                 ocr == OcrStep(page.ocr, ocr_fails)
                 cleaned_text == ocr.cleaned_text
                 native_text == Strip(page.native)
                 ocr_failed == IF ocr_fails THEN <<"ocr">> ELSE <<>>
             IN  IF ocr.raised # None
                 THEN Outcome(ocr.raised, 1, 0, {image_path}, None, ocr_failed)
                 ELSE IF fault = "native"
                 THEN Outcome(Some("get_text failed"), 1, 0, {image_path}, None,
                              ocr_failed \o <<"native">>)
                 ELSE Outcome(None, 1, 1, {image_path},
                              Some([page_num |-> page_num,
                                    image_path |-> image_path,
                                    image_filename |-> image_filename,
                                    ocr_text |-> cleaned_text,
                                    native_text |-> native_text,
                                    has_text |-> (Len(Strip(cleaned_text)) > 0
                                                  \/ Len(Strip(native_text)) > 0)]),
                              ocr_failed)

(***************************************************************************)
(* convert_pdf_to_markdown, step by step, and a direct call of             *)
(* extract_page_with_improved_ocr.                                         *)
(***************************************************************************)
Init ==
    /\ cur = <<>> /\ prev = <<>> /\ ops = <<>>
    /\ pc = "idle"
    /\ exists \in BOOLEAN
    /\ doc \in (IF exists THEN Docs ELSE {<<>>})
    /\ pdf_name \in PdfNames
    /\ output_filename = None /\ pages = None /\ total_pages = 0 /\ idx = 0
    /\ extracted_data = <<>> /\ open_handles = 0 /\ images = {}
    /\ written = {} /\ result = None /\ raised = None /\ faults = <<>>
    /\ call = "none"

Fault(kind) == [kind |-> kind, at |-> Len(extracted_data) + 1]

\* the except clause of convert_pdf_to_markdown
Fail(msg) ==
    /\ result' = Some([success |-> FALSE, error |-> msg, method |-> "failed"])
    /\ raised' = None
    /\ pc' = "done"

\* an exception nothing catches
Propagate(msg) ==
    /\ raised' = Some(msg)
    /\ result' = None
    /\ pc' = "done"

\* ConvertCall with the existence check inside the try block
ConvertCall_CheckInsideTry ==
    /\ pc = "idle"
    /\ \E pgs \in PageRequests, out \in OutputNames :
         /\ pages' = pgs
         /\ output_filename' = out
    /\ call' = "convert"
    /\ IF ~exists
       THEN Fail("FileNotFoundError: PDF file not found")
       ELSE pc' = "count" /\ UNCHANGED <<result, raised>>
    /\ UNCHANGED <<exists, doc, pdf_name, total_pages, idx, extracted_data,
                   open_handles, images, written, faults>>
    /\ UNCHANGED text_vars

\* The caller invokes convert_pdf_to_markdown: the existence check, before
\* the try block.
ConvertCall ==
    /\ pc = "idle"
    /\ \E pgs \in PageRequests, out \in OutputNames :
         /\ pages' = pgs
         /\ output_filename' = out
    /\ call' = "convert"
    /\ IF ~exists
       THEN Propagate("FileNotFoundError: PDF file not found")
       ELSE pc' = "count" /\ UNCHANGED <<result, raised>>
    /\ UNCHANGED <<exists, doc, pdf_name, total_pages, idx, extracted_data,
                   open_handles, images, written, faults>>
    /\ UNCHANGED text_vars

\* ReadPageCount with the page count read before the try block
ReadPageCount_OutsideTry ==
    /\ pc = "count"
    /\ \E fault \in {"none", "open", "len"} :
         CASE fault = "open" ->
                /\ Propagate("open failed")
                /\ faults' = Append(faults, Fault("open"))
                /\ UNCHANGED <<open_handles, total_pages, pages>>
           [] fault = "len" ->
                /\ Propagate("page count failed")
                /\ faults' = Append(faults, Fault("len"))
                /\ open_handles' = open_handles + 1
                /\ UNCHANGED <<total_pages, pages>>
           [] OTHER ->
                /\ total_pages' = Len(doc)
                /\ pages' = IF pages = None
                            THEN Some([i \in 1..Len(doc) |-> i - 1])
                            ELSE pages
                /\ pc' = "loop"
                /\ UNCHANGED <<open_handles, result, raised, faults>>
    /\ UNCHANGED <<exists, doc, pdf_name, output_filename, idx, extracted_data,
                   images, written, call>>
    /\ UNCHANGED text_vars

\* Open the PDF, read the page count, close it; pages defaults to all pages.
ReadPageCount ==
    /\ pc = "count"
    /\ \E fault \in {"none", "open", "len"} :
         CASE fault = "open" ->
                /\ Fail("open failed")
                /\ faults' = Append(faults, Fault("open"))
                /\ UNCHANGED <<open_handles, total_pages, pages>>
           [] fault = "len" ->
                /\ Fail("page count failed")
                /\ faults' = Append(faults, Fault("len"))
                /\ open_handles' = open_handles + 1
                /\ UNCHANGED <<total_pages, pages>>
           [] OTHER ->
                /\ total_pages' = Len(doc)
                /\ pages' = IF pages = None
                            THEN Some([i \in 1..Len(doc) |-> i - 1])
                            ELSE pages
                /\ pc' = "loop"
                /\ UNCHANGED <<open_handles, result, raised, faults>>
    /\ UNCHANGED <<exists, doc, pdf_name, output_filename, idx, extracted_data,
                   images, written, call>>
    /\ UNCHANGED text_vars

\* One pass of the loop for a page number the PDF does not reach.
SkipPage ==
    /\ pc = "loop"
    /\ idx < Len(pages[1])
    /\ pages[1][idx + 1] >= total_pages
    /\ idx' = idx + 1
    /\ UNCHANGED <<pc, exists, doc, pdf_name, output_filename, pages, total_pages,
                   extracted_data, open_handles, images, written, result,
                   raised, call, faults>>
    /\ UNCHANGED text_vars

\* One pass of the loop that extracts a page.
ExtractPage ==
    /\ pc = "loop"
    /\ idx < Len(pages[1])
    /\ pages[1][idx + 1] < total_pages
    /\ \E fault \in ExtractFaults, ocr_fails \in BOOLEAN :
         LET out == extract_page_with_improved_ocr(doc, pdf_name,
                        pages[1][idx + 1], fault, ocr_fails)
         IN  /\ open_handles' = open_handles + out.opened - out.closed
             /\ images' = images \cup out.images
             /\ faults' = faults
                   \o [i \in 1..Len(out.failed) |-> Fault(out.failed[i])]
             /\ IF out.raised = None
                THEN /\ extracted_data' = Append(extracted_data, out.data[1])
                     /\ idx' = idx + 1
                     /\ UNCHANGED <<pc, result, raised>>
                ELSE /\ Fail(out.raised[1])
                     /\ UNCHANGED <<extracted_data, idx>>
    /\ UNCHANGED <<exists, doc, pdf_name, output_filename, pages, total_pages,
                   written, call>>
    /\ UNCHANGED text_vars

\* After the loop: assemble the Markdown, write it, return the result.
AssembleAndWrite ==
    /\ pc = "loop"
    /\ idx = Len(pages[1])
    /\ LET md_content == create_clean_markdown(extracted_data, pdf_name)
           output_name == IF output_filename # None /\ Len(output_filename[1]) > 0
                          THEN output_filename[1] ELSE Stem(pdf_name)
           output_file == OutputDir \o output_name
                            \o <<"_","c","l","e","a","n",".","m","d">>
           others == {f \in written : f.name # output_file}
           pages_with_text == Cardinality({i \in 1..Len(extracted_data) :
                                             extracted_data[i].has_text})
       IN  \E fault \in {"none", "write"} :
             IF fault = "write"
             THEN /\ Fail("write failed")
                  /\ faults' = Append(faults, Fault("write"))
                  /\ written' \in {written,
                                   others \cup {[name |-> output_file,
                                                 content |-> <<>>]}}
             ELSE /\ written' = others \cup {[name |-> output_file,
                                              content |-> md_content]}
                  /\ result' = Some([success |-> TRUE,
                                     method |-> "improved_ocr",
                                     output_file |-> output_file,
                                     extracted_pages |-> Len(extracted_data),
                                     pages_with_text |-> pages_with_text,
                                     total_pages |-> total_pages])
                  /\ raised' = None
                  /\ pc' = "done"
                  /\ UNCHANGED faults
    /\ UNCHANGED <<exists, doc, pdf_name, output_filename, pages, total_pages,
                   idx, extracted_data, open_handles, images, call>>
    /\ UNCHANGED text_vars

\* The caller invokes extract_page_with_improved_ocr itself; what it raises
\* reaches the caller.  fitz.open raises for a path that does not exist.
ExtractCall ==
    /\ pc = "idle"
    /\ call' = "extract"
    /\ \E page_num \in PageNums, fault \in ExtractFaults, ocr_fails \in BOOLEAN :
         LET out == extract_page_with_improved_ocr(doc, pdf_name, page_num,
                        IF exists THEN fault ELSE "open", ocr_fails)
         IN  /\ open_handles' = open_handles + out.opened - out.closed
             /\ images' = images \cup out.images
             /\ faults' = faults
                   \o [i \in 1..Len(out.failed) |-> Fault(out.failed[i])]
             /\ pages' = Some(<<page_num>>)
             /\ IF out.raised = None
                THEN /\ result' = out.data
                     /\ raised' = None
                     /\ pc' = "done"
                ELSE Propagate(out.raised[1])
    /\ UNCHANGED <<exists, doc, pdf_name, output_filename, total_pages, idx,
                   extracted_data, written>>
    /\ UNCHANGED text_vars

Next ==
    \/ ConvertCall
    \/ ReadPageCount
    \/ SkipPage
    \/ ExtractPage
    \/ AssembleAndWrite
    \/ ExtractCall

Spec == Init /\ [][Next]_vars

(***************************************************************************)
(* clean_and_format_ocr_text stage by stage: raw OCR text of several lines *)
(* goes through the four stages in the order of the function body.         *)
(***************************************************************************)
MaxLines == 3

\* lines of raw OCR text: sentences, words, a title, digits, a footer,
\* noise between blanks, a numbered item with a symbol, a blank line
PipelineLines == { <<"O","k",".">>, <<"B","i","g">>, <<"a","b","c">>,
                   <<"T","I","T","L","E">>, <<"1","2">>,
                   <<"P","a","g","e"," ","3">>,
                   <<"x"," ","|","_"," ","y","z">>,
                   <<"I","V","."," ","a","@">>, <<>> }
PipelineInputs ==
    { Join(ls, <<"\n">>) : ls \in UNION { [1..n -> PipelineLines] : n \in 1..MaxLines } }

PipelineInit ==
    /\ cur \in PipelineInputs /\ prev = <<>> /\ ops = <<>>
    /\ ConvOff

\* the stage that follows the stages in done, applied to a non-empty input
Staging(done, f) ==
    /\ pc = "off"
    /\ ops = done
    /\ ops' = Append(ops, f)
    /\ prev' = cur
    /\ UNCHANGED conv_vars

PipelineRemove ==
    /\ Len(cur) > 0
    /\ Staging(<<>>, "remove_headers_footers")
    /\ cur' = remove_headers_footers(cur)

PipelineClean ==
    /\ Staging(<<"remove_headers_footers">>, "clean_ocr_artifacts")
    /\ cur' = clean_ocr_artifacts(cur)

PipelineNormalize ==
    /\ Staging(<<"remove_headers_footers", "clean_ocr_artifacts">>,
               "normalize_text_formatting")
    /\ cur' = normalize_text_formatting(cur)

PipelineDetect ==
    /\ Staging(<<"remove_headers_footers", "clean_ocr_artifacts",
                 "normalize_text_formatting">>,
               "detect_and_format_structure")
    /\ cur' = detect_and_format_structure(cur)

PipelineNext ==
    \/ PipelineRemove
    \/ PipelineClean
    \/ PipelineNormalize
    \/ PipelineDetect
    \/ CleanAndFormatOcrText

PipelineSpec == PipelineInit /\ [][PipelineNext]_vars

(***************************************************************************)
(* Properties                                                              *)
(***************************************************************************)
ConvertDone == pc = "done" /\ call = "convert"
LastOp == IF Len(ops) = 0 THEN "none" ELSE ops[Len(ops)]
Returned == result # None
\* the output file the returned result names
OutputContent ==
    (CHOOSE f \in written : f.name = result[1].output_file).content
FaultKinds == {faults[i].kind : i \in 1..Len(faults)}

\* C1 as stated: for a path that does not exist, convert_pdf_to_markdown
\* returns a result with success = false and a "not found" error, raises
\* nothing, and creates no output file.
C1_MissingFileReturnsFailure ==
    (ConvertDone /\ ~exists) =>
        /\ raised = None
        /\ Returned
        /\ result[1].success = FALSE
        /\ result[1].error = "FileNotFoundError: PDF file not found"
        /\ written = {}

\* C1 amended: for a path that does not exist, convert_pdf_to_markdown
\* raises FileNotFoundError to the caller and returns no result; no
\* document was opened, no image and no output file was written.
C1_MissingFileRaises ==
    (ConvertDone /\ ~exists) =>
        /\ raised = Some("FileNotFoundError: PDF file not found")
        /\ ~Returned
        /\ written = {}
        /\ images = {}
        /\ open_handles = 0
        /\ faults = <<>>

\* a finished call with a page list for a path that does not exist
C1_MissingFileCalled ==
    ConvertDone /\ ~exists /\ pages # None /\ raised # None

\* C2 as stated: when no collaborator fails, a conversion with any page
\* list succeeds and extracted_pages counts exactly the requested entries
\* in 0..N-1; entries that are too large or negative are skipped.
C2_OutOfRangeSkipped ==
    (ConvertDone /\ exists /\ faults = <<>>) =>
        /\ Returned
        /\ result[1].success
        /\ result[1].extracted_pages =
             Cardinality({i \in 1..Len(pages[1]) :
                            0 <= pages[1][i] /\ pages[1][i] < Len(doc)})

\* C3: a page whose OCR step raised has a record with empty cleaned text;
\* and when OCR failures are the only failures of a run, nothing is raised,
\* every requested page the loop does not skip has a record, the result is
\* a success, and the written Markdown shows the placeholder for each page
\* whose OCR step raised.
C3_OcrFailureDegrades ==
    /\ \A i \in 1..Len(faults) :
         (call = "convert" /\ faults[i].kind = "ocr"
            /\ faults[i].at <= Len(extracted_data))
           => extracted_data[faults[i].at].ocr_text = <<>>
    /\ (ConvertDone /\ exists /\ FaultKinds \subseteq {"ocr"}) =>
         /\ raised = None
         /\ Returned
         /\ result[1].success
         /\ result[1].extracted_pages = Len(extracted_data)
         /\ Len(extracted_data) =
              Cardinality({i \in 1..Len(pages[1]) : pages[1][i] < total_pages})
         /\ \A i \in 1..Len(faults) :
              Split(OutputContent, "\n")[6 * faults[i].at - 1] = Placeholder

\* a run where OCR raised on the first page of a PDF whose first page has
\* text, a later page was extracted with text, and the run succeeded
C3_OcrFailedThenContinued ==
    /\ ConvertDone /\ exists
    /\ FaultKinds = {"ocr"}
    /\ faults[1].at = 1
    /\ Len(extracted_data) >= 2
    /\ \E i \in 2..Len(extracted_data) : Len(extracted_data[i].ocr_text) > 0
    /\ extracted_data[1].page_num = 0
    /\ Len(clean_and_format_ocr_text(doc[1].ocr)) > 0
    /\ Returned /\ result[1].success

\* C4 as stated: when convert_pdf_to_markdown has finished, every document
\* handle opened during the conversion has been closed.
C4_HandlesClosed ==
    ConvertDone => open_handles = 0

\* the message convert_pdf_to_markdown reports for a failed collaborator
MessageOf(kind) ==
    CASE kind = "open"   -> "open failed"
      [] kind = "len"    -> "page count failed"
      [] kind = "render" -> "render failed"
      [] kind = "native" -> "get_text failed"
      [] kind = "write"  -> "write failed"
      [] OTHER           -> "none"

\* C5: a conversion of an existing file raises nothing to the caller and
\* returns a result; after any failure other than a caught OCR failure the
\* result has success = false, method "failed" and the failure's message
\* as error; and when the failure came before the write step no output
\* file has been written.
C5_FailuresReturned ==
    (ConvertDone /\ exists) =>
        /\ raised = None
        /\ Returned
        /\ (FaultKinds \ {"ocr"} # {}) =>
             /\ result[1].success = FALSE
             /\ result[1].method = "failed"
             /\ result[1].error = MessageOf(faults[Len(faults)].kind)
        /\ (FaultKinds \ {"ocr", "write"} # {}) => written = {}
        /\ (FaultKinds \ {"ocr"} = {}) => result[1].success

\* a run that failed at page.get_text after an earlier page was extracted
C5_FailedMidRun ==
    /\ ConvertDone /\ exists
    /\ "native" \in FaultKinds
    /\ Len(extracted_data) >= 1
    /\ Returned /\ result[1].success = FALSE

\* a page marker line of the assembled Markdown
IsMarker(line) ==
    /\ Len(line) > Len(MarkerOpen) + Len(MarkerClose)
    /\ HasAt(line, 1, MarkerOpen)
    /\ HasAt(line, Len(line) - Len(MarkerClose) + 1, MarkerClose)
InRangePage(p) == 0 <= p /\ p < Len(doc)
MarkerFor(p) == MarkerOpen \o Str(p + 1) \o MarkerClose

\* C6 as stated: the page markers of the written Markdown are the
\* requested page numbers that lie in 0..N-1, 1-based, in request order.
C6_MarkersInRequestOrder ==
    (ConvertDone /\ Returned /\ result[1].success) =>
        LET wanted == SelectSeq(pages[1], InRangePage)
        IN  SelectSeq(Split(OutputContent, "\n"), IsMarker)
              = [i \in 1..Len(wanted) |-> MarkerFor(wanted[i])]

\* C7 as stated: cleaning a cleaned text changes nothing.
C7_CleanIdempotent ==
    ops = <<"clean_ocr_artifacts", "clean_ocr_artifacts">> => cur = prev

\* C8: every line of the output of remove_headers_footers has at least 3
\* characters and contains an alphabetic character (an empty output has no
\* line).
C8_KeptLinesHaveContent ==
    LastOp = "remove_headers_footers" =>
        \/ cur = <<>>
        \/ \A i \in 1..Len(Split(cur, "\n")) :
             LET line == Split(cur, "\n")[i]
             IN  /\ Len(line) >= 3
                 /\ \E j \in 1..Len(line) : IsAlpha(line[j])

\* an input of several lines of which some were kept and some discarded
C8_SomeKeptSomeDiscarded ==
    /\ ops = <<"remove_headers_footers">>
    /\ cur # <<>>
    /\ Len(Split(cur, "\n")) < Len(Split(prev, "\n"))

\* the lines detect_and_format_structure works on, and the lines it put out
TrimmedLines(text) == SelectSeq(StripAll(Split(text, "\n")), NonEmpty)
OutputLines(text) == SelectSeq(Split(text, "\n"), NonEmpty)
HasMarker(line) ==
    \/ HasAt(line, 1, <<"#", "#", " ">>)
    \/ HasAt(line, 1, <<"#", "#", "#", " ">>)

\* C9: detect_and_format_structure puts out one line per non-empty trimmed
\* input line, and a line of 100 characters or more comes out unchanged.
C9_LongLinesUnchanged ==
    LastOp = "detect_and_format_structure" =>
        /\ Len(OutputLines(cur)) = Len(TrimmedLines(prev))
        /\ \A i \in 1..Len(TrimmedLines(prev)) :
             Len(TrimmedLines(prev)[i]) >= 100
               => OutputLines(cur)[i] = TrimmedLines(prev)[i]

\* an input with an all-uppercase line of 100 characters, which came out
\* unchanged beside a shorter line that got a heading marker
C9_LongUpperLineSeen ==
    /\ ops = <<"detect_and_format_structure">>
    /\ \E i \in 1..Len(TrimmedLines(prev)) :
         /\ Len(TrimmedLines(prev)[i]) = 100
         /\ IsUpperStr(TrimmedLines(prev)[i])
    /\ \E j \in 1..Len(OutputLines(cur)) : HasMarker(OutputLines(cur)[j])

\* the characters C10 allows in cleaned text
AllowedPunctuation == {".", ",", ";", ":", "!", "?", "(", ")", "[", "]", "{", "}",
                       "'", "\"", "-", "NDASH", "MDASH", "ELLIPSIS", "BULLET",
                       "MIDDOT"}
Allowed(c) == IsWord(c) \/ IsSpace(c) \/ c \in AllowedPunctuation

\* C10 as stated: the output of clean_ocr_artifacts holds allowed
\* characters only.
C10_OnlyAllowedCharacters ==
    LastOp = "clean_ocr_artifacts" =>
        \A i \in 1..Len(cur) : Allowed(cur[i])

NoLineBreak(text) == \A i \in 1..Len(text) : text[i] # "\n"
PipelineStages == <<"remove_headers_footers", "clean_ocr_artifacts",
                    "normalize_text_formatting", "detect_and_format_structure">>

\* C11: the text clean_and_format_ocr_text returns holds no line break;
\* inside the pipeline the text holds no line break after Artifact
\* Cleanup, so Formatting Normalization yields at most one paragraph, and
\* Structure Detection puts out that one line as it is or with one heading
\* marker in front.
C11_PipelineSingleLine ==
    /\ LastOp = "clean_and_format_ocr_text" => NoLineBreak(cur)
    /\ ops = SubSeq(PipelineStages, 1, 2) => NoLineBreak(cur)
    /\ ops = SubSeq(PipelineStages, 1, 3) => NoLineBreak(cur)
    /\ ops = PipelineStages =>
         /\ NoLineBreak(cur)
         /\ cur \in {prev, <<"#", "#", " ">> \o prev, <<"#", "#", "#", " ">> \o prev}

\* a raw text of which Header/Footer Removal keeps several lines, the
\* second one capitalized after a line that ends no sentence, and which
\* the pipeline returned with a heading marker
C11_SeveralLinesCleaned ==
    /\ ops = <<"clean_and_format_ocr_text">>
    /\ LET kept == Split(remove_headers_footers(prev), "\n")
       IN  /\ Len(kept) >= 2
           /\ StartsUpper(kept[2])
           /\ ~EndsSentence(kept[1])
    /\ HasMarker(cur)

====
